---- MODULE Spec2Model ----
(***************************************************************************)
(* Slot reservation and availability check of the mentorship-booking       *)
(* application: cleanupExpiredReservations and isSessionAvailable          *)
(* (src/unnamed/part_001, lines 93-251) over the sessions collection.      *)
(*                                                                         *)
(* Strings that the code splits or that the database orders (the slot      *)
(* descriptor, mentor id, date, start and end time) are sequences of       *)
(* one-character strings, so that split("_") and the string comparison of  *)
(* $lt/$lte/$gt/$gte are computed.  Mentee ids and user ids are only ever  *)
(* compared for equality and are plain strings.  Instants (new Date(),     *)
(* reservationExpires) are integers of one clock.                          *)
(***************************************************************************)
EXTENDS Integers, Sequences, FiniteSets, TLC

\* ------------------------------------------------------------- bounds
\* Number of documents the sessions collection holds at one time.
MaxSessions == 2
\* Last instant of the clock.
MaxTime == 2

\* ------------------------------------------------------------- strings
\* Code points of the characters that occur in the modelled strings.
CharCode ==
  [c \in {"0", "1", "2", "9", ":", "_", "a", "b", "d", "e"} |->
     CASE c = "0" -> 48 [] c = "1" -> 49 [] c = "2" -> 50 [] c = "9" -> 57
       [] c = ":" -> 58 [] c = "_" -> 95 [] c = "a" -> 97 [] c = "b" -> 98
       [] c = "d" -> 100 [] c = "e" -> 101]

\* a < b in the order the database compares strings (code point by code
\* point, a proper prefix first).
RECURSIVE StrLt(_, _)
StrLt(a, b) ==
  IF b = <<>> THEN FALSE
  ELSE IF a = <<>> THEN TRUE
  ELSE IF Head(a) = Head(b) THEN StrLt(Tail(a), Tail(b))
  ELSE CharCode[Head(a)] < CharCode[Head(b)]

StrLte(a, b) == a = b \/ StrLt(a, b)
StrGt(a, b) == StrLt(b, a)
StrGte(a, b) == a = b \/ StrLt(b, a)

\* slotInfo.split("_"): the fields between the separators.
RECURSIVE Split(_)
Split(s) ==
  IF s = <<>> THEN << <<>> >>
  ELSE IF Head(s) = "_" THEN << <<>> >> \o Split(Tail(s))
  ELSE LET r == Split(Tail(s)) IN << <<Head(s)>> \o Head(r) >> \o Tail(r)

\* Array destructuring: the i-th element, undefined past the end.  Both
\* undefined and "" are falsy; undefined is written as the empty string.
Field(parts, i) == IF i <= Len(parts) THEN parts[i] ELSE <<>>

\* A falsy string operand of !x or if (x).
Falsy(x) == x = <<>>

\* mentorId_date_startTime_endTime
Descriptor(m, d, s, e) == m \o <<"_">> \o d \o <<"_">> \o s \o <<"_">> \o e

\* ------------------------------------------------------------- data
RESERVED == "reserved"
CONFIRMED == "confirmed"

\* userId omitted (undefined); if (userId) is false for it.
NoUser == ""

Mentors == {<<"a">>, <<"b">>}
Dates == {<<"d">>, <<"e">>}
\* "09", "10", "11": zero-padded, so string order is clock order.
Times == {<<"0", "9">>, <<"1", "0">>, <<"1", "1">>}
Mentees == {"u1", "u2"}

\* ------------------------------------------------------------- isSessionAvailable query
\* OverlapMatches with $gte for $gt in the first branch: a session that
\* ends exactly when the requested slot starts is selected.
OverlapMatchesTouching(sess, mentorId, dateStr, startTime, endTime) ==
  /\ sess.mentorId = mentorId
  /\ sess.date = dateStr
  /\ \/ StrLte(sess.startTime, startTime) /\ StrGte(sess.endTime, startTime)
     \/ StrLt(sess.startTime, endTime) /\ StrGte(sess.endTime, endTime)
     \/ StrGte(sess.startTime, startTime) /\ StrLte(sess.endTime, endTime)

\* OverlapMatches without its third branch: a session lying strictly
\* inside the requested slot is not selected.
OverlapMatchesTwoBranches(sess, mentorId, dateStr, startTime, endTime) ==
  /\ sess.mentorId = mentorId
  /\ sess.date = dateStr
  /\ \/ StrLte(sess.startTime, startTime) /\ StrGt(sess.endTime, startTime)
     \/ StrLt(sess.startTime, endTime) /\ StrGte(sess.endTime, endTime)

\* The three-branch $or on startTime/endTime together with the mentorId
\* and date equalities.
OverlapMatches(sess, mentorId, dateStr, startTime, endTime) ==
  /\ sess.mentorId = mentorId
  /\ sess.date = dateStr
  /\ \/ StrLte(sess.startTime, startTime) /\ StrGt(sess.endTime, startTime)
     \/ StrLt(sess.startTime, endTime) /\ StrGte(sess.endTime, endTime)
     \/ StrGte(sess.startTime, startTime) /\ StrLte(sess.endTime, endTime)

\* StatusMatches with $gte for $gt: a hold still counts at the instant it
\* expires.
StatusMatchesInclusive(sess, now) ==
  \/ sess.status = CONFIRMED
  \/ sess.status = RESERVED /\ sess.reservationExpires >= now

\* The status branch of the query: confirmed, or reserved and not expired
\* at the instant `now` of the call.
StatusMatches(sess, now) ==
  \/ sess.status = CONFIRMED
  \/ sess.status = RESERVED /\ sess.reservationExpires > now

\* The documents the query of isSessionAvailable selects.
ExistingSessions(store, now, mentorId, dateStr, startTime, endTime) ==
  {sess \in store :
     /\ OverlapMatches(sess, mentorId, dateStr, startTime, endTime)
     /\ StatusMatches(sess, now)}

\* The orders in which find() may return a set of documents (no sort is
\* given, so the order is the database's choice).
Orderings(S) ==
  {f \in [1..Cardinality(S) -> S] : \A i, j \in DOMAIN f : i # j => f[i] # f[j]}

\* Outcome of a function body: a returned value or a thrown error.
Returned(v) == [kind |-> "return", value |-> v]
Thrown == [kind |-> "throw"]

\* Decide with the reservation branch tried before the confirmed branch.
DecideReservedFirst(existingSessions, userId) ==
  LET isConfirmed(session) == session.status = CONFIRMED
      isReserved(session) == session.status = RESERVED
      isUsers(session) == session.menteeId = userId
      confirmedSessions == SelectSeq(existingSessions, isConfirmed)
      reservedSessions == SelectSeq(existingSessions, isReserved)
      userReserved == SelectSeq(reservedSessions, isUsers)
  IN IF Len(existingSessions) = 0 THEN [available |-> TRUE]
     ELSE IF Len(reservedSessions) > 0
       THEN IF userId # NoUser /\ Len(userReserved) > 0
              THEN [available |-> TRUE,
                    reservedForCurrentUser |-> TRUE,
                    reservationExpires |-> userReserved[1].reservationExpires]
              ELSE [available |-> FALSE,
                    reason |-> "This time slot is temporarily reserved",
                    expiresAt |-> reservedSessions[1].reservationExpires]
     ELSE IF Len(confirmedSessions) > 0
       THEN [available |-> FALSE, reason |-> "This time slot is already booked"]
     ELSE [available |-> TRUE]

\* Decide looking for the caller only in the first reservation returned.
DecideFirstReservationOnly(existingSessions, userId) ==
  LET isConfirmed(session) == session.status = CONFIRMED
      isReserved(session) == session.status = RESERVED
      confirmedSessions == SelectSeq(existingSessions, isConfirmed)
      reservedSessions == SelectSeq(existingSessions, isReserved)
  IN IF Len(existingSessions) = 0 THEN [available |-> TRUE]
     ELSE IF Len(confirmedSessions) > 0
       THEN [available |-> FALSE, reason |-> "This time slot is already booked"]
     ELSE IF Len(reservedSessions) > 0
       THEN IF userId # NoUser /\ reservedSessions[1].menteeId = userId
              THEN [available |-> TRUE,
                    reservedForCurrentUser |-> TRUE,
                    reservationExpires |-> reservedSessions[1].reservationExpires]
              ELSE [available |-> FALSE,
                    reason |-> "This time slot is temporarily reserved",
                    expiresAt |-> reservedSessions[1].reservationExpires]
     ELSE [available |-> TRUE]

\* Lines 202-246: the decision on the documents the query returned
\* (Array.prototype.filter is SelectSeq).
Decide(existingSessions, userId) ==
  LET isConfirmed(session) == session.status = CONFIRMED
      isReserved(session) == session.status = RESERVED
      isUsers(session) == session.menteeId = userId
      confirmedSessions == SelectSeq(existingSessions, isConfirmed)
      reservedSessions == SelectSeq(existingSessions, isReserved)
      userReserved == SelectSeq(reservedSessions, isUsers)
  IN IF Len(existingSessions) = 0 THEN [available |-> TRUE]
     ELSE IF Len(confirmedSessions) > 0
       THEN [available |-> FALSE, reason |-> "This time slot is already booked"]
     ELSE IF Len(reservedSessions) > 0
       THEN IF userId # NoUser /\ Len(userReserved) > 0
              THEN [available |-> TRUE,
                    reservedForCurrentUser |-> TRUE,
                    reservationExpires |-> userReserved[1].reservationExpires]
              ELSE [available |-> FALSE,
                    reason |-> "This time slot is temporarily reserved",
                    expiresAt |-> reservedSessions[1].reservationExpires]
     ELSE [available |-> TRUE]

\* AvailabilityBody with Session.find() issued before the descriptor is
\* validated: a failing query is felt on a malformed descriptor too.
AvailabilityBodyQueryFirst(store, now, slotInfo, userId, connectOk, findOk) ==
  IF ~connectOk \/ ~findOk THEN {Thrown}
  ELSE
    LET parts == Split(slotInfo)
        mentorId == Field(parts, 1)
        dateStr == Field(parts, 2)
        startTime == Field(parts, 3)
        endTime == Field(parts, 4)
    IN IF Falsy(mentorId) \/ Falsy(dateStr) \/ Falsy(startTime) \/ Falsy(endTime)
         THEN {Returned([available |-> FALSE, reason |-> "Invalid slot information"])}
       ELSE {Returned(Decide(existingSessions, userId)) :
               existingSessions \in
                 Orderings(ExistingSessions(store, now, mentorId, dateStr,
                                            startTime, endTime))}

\* Lines 148-246: the body inside try.  connectOk and findOk say whether
\* connectDB() and Session.find() succeed or throw.
AvailabilityBody(store, now, slotInfo, userId, connectOk, findOk) ==
  IF ~connectOk THEN {Thrown}
  ELSE
    LET parts == Split(slotInfo)
        mentorId == Field(parts, 1)
        dateStr == Field(parts, 2)
        startTime == Field(parts, 3)
        endTime == Field(parts, 4)
    IN IF Falsy(mentorId) \/ Falsy(dateStr) \/ Falsy(startTime) \/ Falsy(endTime)
         THEN {Returned([available |-> FALSE, reason |-> "Invalid slot information"])}
       ELSE IF ~findOk THEN {Thrown}
       ELSE {Returned(Decide(existingSessions, userId)) :
               existingSessions \in
                 Orderings(ExistingSessions(store, now, mentorId, dateStr,
                                            startTime, endTime))}

\* isSessionAvailable without its try/catch: a thrown error escapes.
AvailabilityNoCatch(outcome) == outcome

\* Lines 247-250: the catch clause of isSessionAvailable.
AvailabilityCatch(outcome) ==
  IF outcome.kind = "throw"
    THEN Returned([available |-> FALSE, reason |-> "Error checking availability"])
    ELSE outcome

\* isSessionAvailable(slotInfo, userId) called at instant `now` on `store`:
\* the outcomes it can have.
IsSessionAvailable(store, now, slotInfo, userId, connectOk, findOk) ==
  {AvailabilityCatch(o) :
     o \in AvailabilityBody(store, now, slotInfo, userId, connectOk, findOk)}

\* ------------------------------------------------------------- cleanupExpiredReservations
\* SessionsToCleanup with $lte for $lt: a hold is swept at the instant it
\* expires.
SessionsToCleanupInclusive(store, now) ==
  {sess \in store : sess.status = RESERVED /\ sess.reservationExpires <= now}

\* Lines 108-111: reserved sessions whose reservationExpires is before now.
SessionsToCleanup(store, now) ==
  {sess \in store : sess.status = RESERVED /\ sess.reservationExpires < now}

\* Lines 119-121: deleteMany({_id: {$in: ids}}) on the store as it is when
\* the delete runs.
DeleteMany(store, ids) ==
  [store |-> {sess \in store : sess.id \notin ids},
   deletedCount |-> Cardinality({sess \in store : sess.id \in ids})]

\* Lines 135-138: the catch clause of cleanupExpiredReservations.
CleanupCatch(outcome) ==
  IF outcome.kind = "throw"
    THEN Returned([success |-> FALSE, error |-> "error"])
    ELSE outcome

\* Lines 118-134: the result once the delete (if any) is done.
CleanupResult(found, deleted) ==
  IF Cardinality(found) > 0
    THEN [success |-> TRUE,
          deletedCount |-> deleted.deletedCount,
          totalProcessed |-> Cardinality(found)]
    ELSE [success |-> TRUE, deletedCount |-> 0, totalProcessed |-> 0]

\* ------------------------------------------------------------- state
VARIABLES
  sessions,   \* the sessions collection: a set of documents
  now,        \* the clock: what new Date() returns
  last,       \* the operation that completed last: its inputs and its result
  req,        \* per mentee: the booking request in flight
  sweep       \* the cleanupExpiredReservations call in flight

vars == <<sessions, now, last, req, sweep>>

Idle == [pc |-> "idle"]

\* Time ranges that start before they end.
Ranges == {r \in Times \X Times : StrLt(r[1], r[2])}

\* Slot descriptors a booking request is made for: every range of one
\* mentor's day.
BookingSlots == {Descriptor(<<"a">>, <<"d">>, r[1], r[2]) : r \in Ranges}

\* The length of the hold a reservation is created with, in clock ticks.
HoldTicks == 1

\* The session document a booking inserts for `slotInfo`: reserved with a
\* hold that ends at `expires`, or confirmed (no reservationExpires).
NewSession(id, menteeId, slotInfo, status, expires) ==
  LET parts == Split(slotInfo)
      doc == [id |-> id, menteeId |-> menteeId,
              mentorId |-> Field(parts, 1), date |-> Field(parts, 2),
              startTime |-> Field(parts, 3), endTime |-> Field(parts, 4),
              status |-> status]
  IN IF status = RESERVED
       THEN doc @@ [reservationExpires |-> expires]
       ELSE doc

\* The caller's own live holds on the requested slot, which a booking made
\* on reservedForCurrentUser takes the place of.
OwnHolds(store, at, slotInfo, userId) ==
  LET parts == Split(slotInfo)
  IN {sess \in ExistingSessions(store, at, Field(parts, 1), Field(parts, 2),
                                 Field(parts, 3), Field(parts, 4)) :
        sess.status = RESERVED /\ sess.menteeId = userId}

\* The store after the booking request acts on `result`: a session is
\* created only if the result has available = true.
StoreAfterBooking(store, at, id, menteeId, slotInfo, status, expires, result) ==
  IF ~result.available THEN store
  ELSE IF "reservedForCurrentUser" \in DOMAIN result
    THEN (store \ OwnHolds(store, at, slotInfo, menteeId))
           \cup {NewSession(id, menteeId, slotInfo, status, expires)}
  ELSE store \cup {NewSession(id, menteeId, slotInfo, status, expires)}

\* No result is waiting to be read.
None == [op |-> "none"]

\* One request at a time: the caller of isSessionAvailable or of
\* cleanupExpiredReservations has read the result before the next request
\* is made.
Ready == last.op \notin {"check", "cleanup"}

\* The _id of a newly inserted document: one that no document has and
\* that no sweep in flight remembers.
FreshId ==
  LET used == {sess.id : sess \in sessions}
                \cup (IF sweep.pc = "found" THEN sweep.ids ELSE {})
  IN CHOOSE i \in 1..(Cardinality(used) + 1) :
       i \notin used /\ \A j \in 1..(i - 1) : j \in used

Init ==
  /\ sessions = {}
  /\ now = 0
  /\ last = None
  /\ req = [u \in Mentees |-> Idle]
  /\ sweep = Idle

\* The clock advances.
Tick ==
  /\ Ready
  /\ now < MaxTime
  /\ now' = now + 1
  /\ last' = None
  /\ UNCHANGED <<sessions, req, sweep>>

\* ------------------------------------------------------------- one request at a time
\* A call of isSessionAvailable that runs to its end.
\* connectOk and findOk say whether connectDB() and Session.find()
\* succeed or throw.
Check(slotInfo, userId, connectOk, findOk) ==
  /\ Ready
  /\ \E body \in AvailabilityBody(sessions, now, slotInfo, userId, connectOk, findOk) :
       last' = [op |-> "check", slotInfo |-> slotInfo, userId |-> userId,
                connectOk |-> connectOk, findOk |-> findOk, before |-> sessions,
                threw |-> body = Thrown,
                outcome |-> AvailabilityCatch(body)]
  /\ UNCHANGED <<sessions, now, req, sweep>>

\* The caller reads the result.
Return ==
  /\ ~Ready
  /\ last' = None
  /\ UNCHANGED <<sessions, now, req, sweep>>

\* A booking request that runs to its end: isSessionAvailable, then the
\* creation of the session if the result has available = true.
Book(menteeId, slotInfo) ==
  /\ Ready
  /\ \E o \in IsSessionAvailable(sessions, now, slotInfo, menteeId, TRUE, TRUE) :
       \E status \in {RESERVED, CONFIRMED} :
         /\ sessions' = StoreAfterBooking(sessions, now, FreshId, menteeId, slotInfo,
                                          status, now + HoldTicks, o.value)
         /\ Cardinality(sessions') <= MaxSessions
         /\ last' = None
  /\ UNCHANGED <<now, req, sweep>>

\* Lines 102-134 run to their end.  connectOk, findOk and deleteOk say
\* whether connectDB(), Session.find() and Session.deleteMany() succeed
\* or throw; a deleteMany that throws deletes nothing.
CleanupBody(store, at, connectOk, findOk, deleteOk) ==
  IF ~connectOk \/ ~findOk THEN [outcome |-> Thrown, store |-> store]
  ELSE
    LET sessionsToCleanup == SessionsToCleanup(store, at)
        ids == {sess.id : sess \in sessionsToCleanup}
        deleted == DeleteMany(store, ids)
    IN IF Cardinality(sessionsToCleanup) > 0 /\ ~deleteOk
         THEN [outcome |-> Thrown, store |-> store]
       ELSE [outcome |-> Returned(CleanupResult(sessionsToCleanup, deleted)),
             store |-> IF Cardinality(sessionsToCleanup) > 0
                         THEN deleted.store ELSE store]

\* A call of cleanupExpiredReservations that runs to its end, after the
\* last result was read or right after another such call.
Cleanup(connectOk, findOk, deleteOk) ==
  LET run == CleanupBody(sessions, now, connectOk, findOk, deleteOk)
  IN /\ Ready \/ last.op = "cleanup"
     /\ sessions' = run.store
     /\ last' = [op |-> "cleanup", before |-> sessions,
                 threw |-> run.outcome = Thrown,
                 repeated |-> last.op = "cleanup" /\ ~last.threw,
                 outcome |-> CleanupCatch(run.outcome)]
     /\ UNCHANGED <<now, req, sweep>>

\* Descriptors isSessionAvailable is called with.
CheckSlots == BookingSlots

\* Descriptors no session is ever stored for: another mentor, another
\* date, and one with two fields only.
OtherSlots ==
  {Descriptor(<<"b">>, <<"d">>, <<"0", "9">>, <<"1", "1">>),
   Descriptor(<<"a">>, <<"e">>, <<"0", "9">>, <<"1", "1">>),
   <<"a", "_", "d">>}

\* Descriptors that do not yield four non-empty fields: the empty string,
\* three fields, a fourth field that is empty, and five fields of which
\* the second is empty.
MalformedSlots ==
  {<<>>,
   <<"a", "_", "d", "_", "0", "9">>,
   <<"a", "_", "d", "_", "0", "9", "_">>,
   <<"a", "_", "_", "d", "_", "0", "9", "_", "1", "1">>}

\* Descriptors of five fields whose first four are those of a booked slot.
LongSlots ==
  {Descriptor(<<"a">>, <<"d">>, <<"0", "9">>, <<"1", "1">>) \o <<"_", "x">>,
   Descriptor(<<"a">>, <<"d">>, <<"0", "9">>, <<"1", "0">>) \o <<"_", "1", "2">>}

\* Descriptors of the calls in which the database fails: a well-formed
\* one and one with two fields.
FailedSlots ==
  {Descriptor(<<"a">>, <<"d">>, <<"0", "9">>, <<"1", "1">>), <<"a", "_", "d">>}

\* A call in which connectDB() or Session.find() throws.
CheckFailures == {<<FALSE, TRUE>>, <<TRUE, FALSE>>}

\* Which of connectDB(), Session.find() and Session.deleteMany() succeed
\* in a call of cleanupExpiredReservations: all, or one throws.
CleanupModes ==
  {<<TRUE, TRUE, TRUE>>, <<FALSE, TRUE, TRUE>>, <<TRUE, FALSE, TRUE>>,
   <<TRUE, TRUE, FALSE>>}

NextSeq ==
  \/ Tick
  \/ Return
  \/ \E s \in CheckSlots, u \in Mentees \cup {NoUser} : Check(s, u, TRUE, TRUE)
  \/ \E s \in OtherSlots : Check(s, "u1", TRUE, TRUE)
  \/ \E s \in FailedSlots, db \in CheckFailures : Check(s, NoUser, db[1], db[2])
  \/ \E s \in MalformedSlots, ok \in BOOLEAN : Check(s, "u1", TRUE, ok)
  \/ \E s \in LongSlots, u \in Mentees \cup {NoUser} : Check(s, u, TRUE, TRUE)
  \/ \E u \in Mentees, s \in BookingSlots : Book(u, s)
  \/ \E db \in CleanupModes : Cleanup(db[1], db[2], db[3])

SpecSeq == Init /\ [][NextSeq]_vars

\* ------------------------------------------------------------- properties: vocabulary
\* The four fields of a descriptor, and whether all four are non-empty.
Parsed(slotInfo) ==
  LET parts == Split(slotInfo)
  IN [mentorId |-> Field(parts, 1), date |-> Field(parts, 2),
      startTime |-> Field(parts, 3), endTime |-> Field(parts, 4)]

\* All four fields of a parsed descriptor are non-empty.
ValidSlot(p) ==
  ~(Falsy(p.mentorId) \/ Falsy(p.date) \/ Falsy(p.startTime) \/ Falsy(p.endTime))

\* Two ranges [s, e) and [S, E) overlap.
Overlap(s, e, S, E) == StrLt(s, E) /\ StrLt(S, e)

\* A stored session is on the parsed slot p: same mentor, same date,
\* overlapping range.
OnSlot(sess, p) ==
  /\ sess.mentorId = p.mentorId
  /\ sess.date = p.date
  /\ Overlap(sess.startTime, sess.endTime, p.startTime, p.endTime)

\* The sessions on the slot of the last isSessionAvailable call.
SessionsOnSlot ==
  LET p == Parsed(last.slotInfo)
  IN {sess \in sessions : OnSlot(sess, p)}

IsConfirmed(sess) == sess.status = CONFIRMED
\* A reservation whose hold has not expired at instant `at`.
LiveHold(sess, at) == sess.status = RESERVED /\ sess.reservationExpires > at
\* A reservation whose hold is void at instant `at`.
ExpiredHold(sess, at) == sess.status = RESERVED /\ sess.reservationExpires <= at

\* Two sessions that may not coexist: same mentor and date, overlapping
\* ranges, each confirmed or a live reservation.
DoubleBooked(x, y, at) ==
  /\ x.id # y.id
  /\ x.mentorId = y.mentorId
  /\ x.date = y.date
  /\ Overlap(x.startTime, x.endTime, y.startTime, y.endTime)
  /\ IsConfirmed(x) \/ LiveHold(x, at)
  /\ IsConfirmed(y) \/ LiveHold(y, at)

\* An isSessionAvailable call on a well-formed descriptor has returned and
\* no database operation threw.
Checked ==
  /\ last.op = "check"
  /\ ~last.threw
  /\ ValidSlot(Parsed(last.slotInfo))

\* ------------------------------------------------------------- C2
\* C2: with booking requests running one at a time, no two sessions of the
\* same mentor and date with overlapping ranges are both confirmed, or one
\* confirmed and the other a live reservation, or both live reservations.
C2_NoDoubleBookingOneAtATime ==
  \A x \in sessions : \A y \in sessions : ~DoubleBooked(x, y, now)

\* ------------------------------------------------------------- C4
\* C4: a reservation whose reservationExpires is not later than the instant
\* of the call never makes the result unavailable and never comes back as
\* reservedForCurrentUser; if every session on the slot is such a
\* reservation, the slot is reported available.
C4_ExpiredHoldIsVoid ==
  Checked =>
    LET r == last.outcome.value
        onSlot == SessionsOnSlot
    IN /\ ~r.available =>
            \E sess \in onSlot : IsConfirmed(sess) \/ LiveHold(sess, now)
       /\ "expiresAt" \in DOMAIN r => r.expiresAt > now
       /\ "reservedForCurrentUser" \in DOMAIN r =>
            /\ r.reservationExpires > now
            /\ \E sess \in onSlot :
                 LiveHold(sess, now) /\ sess.menteeId = last.userId
       /\ (\A sess \in onSlot : ExpiredHold(sess, now)) => r = [available |-> TRUE]

\* An expired hold of the caller is still stored on the slot (at the very
\* instant it expires), and the slot is reported available.
C4_Witness ==
  /\ Checked
  /\ \E sess \in SessionsOnSlot :
       /\ sess.status = RESERVED
       /\ sess.reservationExpires = now
       /\ sess.menteeId = last.userId
  /\ last.outcome.value = [available |-> TRUE]

\* ------------------------------------------------------------- C5
\* C5: every result is available = true, or available = false with a
\* reason; a result that is unavailable because of a reservation carries
\* the reservationExpires of a live reservation on the slot that belongs
\* to another mentee than the caller.
C5_ResultShape ==
  last.op = "check" =>
    /\ last.outcome.kind = "return"
    /\ LET r == last.outcome.value
       IN /\ r.available \/ "reason" \in DOMAIN r
          /\ (~r.available /\ r.reason = "This time slot is temporarily reserved") =>
               /\ "expiresAt" \in DOMAIN r
               /\ \E sess \in SessionsOnSlot :
                    /\ LiveHold(sess, now)
                    /\ sess.menteeId # last.userId
                    /\ r.expiresAt = sess.reservationExpires

\* A call by a mentee finds another mentee's live hold on the slot.
C5_Witness ==
  /\ Checked
  /\ last.userId # NoUser
  /\ ~last.outcome.value.available
  /\ last.outcome.value.reason = "This time slot is temporarily reserved"

C8_CleanupAlone ==
  (last.op = "cleanup" /\ ~last.threw) =>
    LET r == last.outcome.value
        expired == {sess \in last.before :
                      sess.status = RESERVED /\ sess.reservationExpires < now}
    IN /\ r.success
       /\ r.deletedCount = Cardinality(expired)
       /\ r.totalProcessed = Cardinality(expired)
       /\ sessions = last.before \ expired
       /\ last.repeated => r.deletedCount = 0 /\ r.totalProcessed = 0

\* A run deleted an expired reservation and left another session in place.
C8_Witness ==
  /\ last.op = "cleanup"
  /\ ~last.threw
  /\ last.outcome.value.deletedCount >= 1
  /\ sessions # {}

\* ------------------------------------------------------------- C9
\* C9: if a confirmed session is on the slot, the result is available =
\* false with reason "This time slot is already booked", whatever
\* reservations are on the slot, the caller's own live one included.
C9_ConfirmedWins ==
  (Checked /\ \E sess \in SessionsOnSlot : IsConfirmed(sess)) =>
    last.outcome.value =
      [available |-> FALSE, reason |-> "This time slot is already booked"]

\* A confirmed session and the caller's own live hold are both on the slot.
C9_Witness ==
  /\ Checked
  /\ \E sess \in SessionsOnSlot : IsConfirmed(sess)
  /\ \E sess \in SessionsOnSlot :
       LiveHold(sess, now) /\ sess.menteeId = last.userId

\* ------------------------------------------------------------- C10
\* C10: with no confirmed session and at least one live reservation on the
\* slot, the result is available = true with reservedForCurrentUser and
\* the reservationExpires of a live reservation of the caller exactly if a
\* userId was passed and such a reservation is on the slot; otherwise it
\* is available = false with reason "This time slot is temporarily reserved".
C10_ReservedBranch ==
  LET onSlot == SessionsOnSlot
      holds == {sess \in onSlot : LiveHold(sess, now)}
      own == {sess \in holds : sess.menteeId = last.userId}
      r == last.outcome.value
  IN (Checked /\ holds # {} /\ \A sess \in onSlot : ~IsConfirmed(sess)) =>
       IF last.userId # NoUser /\ own # {}
         THEN /\ r.available
              /\ DOMAIN r = {"available", "reservedForCurrentUser", "reservationExpires"}
              /\ r.reservedForCurrentUser
              /\ r.reservationExpires \in {sess.reservationExpires : sess \in own}
         ELSE /\ ~r.available
              /\ r.reason = "This time slot is temporarily reserved"

\* The caller's live hold and another mentee's live hold are both on the
\* slot, and the slot is reported reserved for the caller.
C10_Witness ==
  /\ Checked
  /\ \E x \in SessionsOnSlot : \E y \in SessionsOnSlot :
       /\ LiveHold(x, now) /\ x.menteeId = last.userId
       /\ LiveHold(y, now) /\ y.menteeId # last.userId
  /\ "reservedForCurrentUser" \in DOMAIN last.outcome.value

\* ------------------------------------------------------------- C11
\* The text of s before its (n+1)-th separator, all of s if it has fewer.
RECURSIVE UpToSeparator(_, _)
UpToSeparator(s, n) ==
  IF s = <<>> THEN <<>>
  ELSE IF Head(s) = "_"
         THEN IF n = 0 THEN <<>> ELSE <<"_">> \o UpToSeparator(Tail(s), n - 1)
  ELSE <<Head(s)>> \o UpToSeparator(Tail(s), n)

\* The descriptor made of the first four fields of slotInfo: its text
\* before the fourth separator.
FirstFour(slotInfo) == UpToSeparator(slotInfo, 3)

InvalidSlotResult ==
  Returned([available |-> FALSE, reason |-> "Invalid slot information"])

OverlapTimes == Times \cup {<<"1">>, <<"9">>}

\* A stored session and a requested slot, any mentor, date and times.
OverlapInputs ==
  [mentorId : Mentors, date : Dates, startTime : OverlapTimes, endTime : OverlapTimes]

InitOverlap ==
  /\ sessions = {}
  /\ now = 0
  /\ last \in [op : {"overlapInput"}, sess : OverlapInputs, slot : OverlapInputs]
  /\ req = [u \in Mentees |-> Idle]
  /\ sweep = Idle

\* The query's overlap predicate is evaluated on the stored session for the
\* requested slot.
ApplyOverlap ==
  /\ last.op = "overlapInput"
  /\ last' = [op |-> "overlap", sess |-> last.sess, slot |-> last.slot,
              selected |-> OverlapMatches(last.sess, last.slot.mentorId,
                                          last.slot.date, last.slot.startTime,
                                          last.slot.endTime)]
  /\ UNCHANGED <<sessions, now, req, sweep>>

NextOverlap == ApplyOverlap

SpecOverlap == InitOverlap /\ [][NextOverlap]_vars

\* ------------------------------------------------------------- C3
\* C3: for a stored session [s, e) and a requested slot [S, E) with s < e
\* and S < E, the predicate selects the session exactly if mentor and date
\* are the same and s < E and S < e; a session that ends when the slot
\* starts or starts when it ends is not selected, and a session of another
\* mentor or date is never selected.
C3_OverlapPredicate ==
  last.op = "overlap" =>
    LET x == last.sess
        q == last.slot
    IN /\ (StrLt(x.startTime, x.endTime) /\ StrLt(q.startTime, q.endTime)) =>
            /\ last.selected <=>
                 /\ x.mentorId = q.mentorId
                 /\ x.date = q.date
                 /\ Overlap(x.startTime, x.endTime, q.startTime, q.endTime)
            /\ (x.endTime = q.startTime \/ x.startTime = q.endTime) => ~last.selected
       /\ (x.mentorId # q.mentorId \/ x.date # q.date) => ~last.selected

\* A session of the same mentor and date that ends exactly when the
\* requested slot starts was tried and not selected.
C3_Witness ==
  /\ last.op = "overlap"
  /\ last.sess.mentorId = last.slot.mentorId
  /\ last.sess.date = last.slot.date
  /\ StrLt(last.sess.startTime, last.sess.endTime)
  /\ StrLt(last.slot.startTime, last.slot.endTime)
  /\ last.sess.endTime = last.slot.startTime
  /\ ~last.selected

\* ------------------------------------------------------------- interleaved requests
\* A booking request of mentee u calls isSessionAvailable for the slot and
\* keeps the result.
BeginBooking(u, slotInfo) ==
  /\ req[u].pc = "idle"
  /\ \E o \in IsSessionAvailable(sessions, now, slotInfo, u, TRUE, TRUE) :
       req' = [req EXCEPT ![u] = [pc |-> "checked", slotInfo |-> slotInfo,
                                  result |-> o.value]]
  /\ last' = None
  /\ UNCHANGED <<sessions, now, sweep>>

\* The request acts on the result it holds: it creates the session if the
\* result has available = true, and ends.
CreateSession(u, status) ==
  /\ req[u].pc = "checked"
  /\ sessions' = StoreAfterBooking(sessions, now, FreshId, u, req[u].slotInfo,
                                   status, now + HoldTicks, req[u].result)
  /\ Cardinality(sessions') <= MaxSessions
  /\ req' = [req EXCEPT ![u] = Idle]
  /\ last' = None
  /\ UNCHANGED <<now, sweep>>

\* A request confirms a reservation: the session's status becomes
\* confirmed.
Confirm(id) ==
  /\ \E sess \in sessions :
       /\ sess.id = id
       /\ sess.status = RESERVED
       /\ sessions' = (sessions \ {sess}) \cup {[sess EXCEPT !.status = CONFIRMED]}
  /\ last' = None
  /\ UNCHANGED <<now, req, sweep>>

\* Lines 103-116 of cleanupExpiredReservations: the find, at the run's
\* instant.  With nothing found the run returns at once (lines 130-134).
SweepFind ==
  /\ sweep.pc = "idle"
  /\ LET sessionsToCleanup == SessionsToCleanup(sessions, now)
     IN IF Cardinality(sessionsToCleanup) > 0
          THEN /\ sweep' = [pc |-> "found", at |-> now,
                            ids |-> {sess.id : sess \in sessionsToCleanup}]
               /\ last' = None
          ELSE /\ sweep' = Idle
               /\ last' = [op |-> "sweep", at |-> now, deleted |-> {},
                           outcome |-> Returned(CleanupResult({}, {}))]
  /\ UNCHANGED <<sessions, now, req>>

\* Lines 119-127: the deleteMany by _id, on the store as it is by then.
SweepDelete ==
  /\ sweep.pc = "found"
  /\ LET deleted == DeleteMany(sessions, sweep.ids)
     IN /\ sessions' = deleted.store
        /\ last' = [op |-> "sweep", at |-> sweep.at,
                    deleted |-> sessions \ deleted.store,
                    outcome |-> Returned(CleanupResult(sweep.ids, deleted))]
  /\ sweep' = Idle
  /\ UNCHANGED <<now, req>>

\* Slot descriptors the interleaved requests are made for: two
\* overlapping ranges of one mentor's day.
RacedSlots ==
  {Descriptor(<<"a">>, <<"d">>, <<"0", "9">>, <<"1", "0">>),
   Descriptor(<<"a">>, <<"d">>, <<"0", "9">>, <<"1", "1">>)}

NextConc ==
  \/ Tick
  \/ \E u \in Mentees, s \in RacedSlots : BeginBooking(u, s)
  \/ \E u \in Mentees, st \in {RESERVED, CONFIRMED} : CreateSession(u, st)
  \/ \E id \in 1..MaxSessions : Confirm(id)
  \/ SweepFind
  \/ SweepDelete

SpecConc == Init /\ [][NextConc]_vars

\* ------------------------------------------------------------- C1
\* C1: with the checks and the creations of different booking requests
\* interleaved in any order, the store never holds two sessions of the
\* same mentor and date with overlapping ranges that are both confirmed,
\* or one confirmed and the other a live reservation, or both live
\* reservations.
C1_NoDoubleBookingInterleaved ==
  ~\E x \in sessions : \E y \in sessions : DoubleBooked(x, y, now)

\* ------------------------------------------------------------- C7
\* C7: every session cleanupExpiredReservations deletes has, when it is
\* deleted, status reserved and a reservationExpires earlier than the
\* run's instant.
C7_SweepDeletesOnlyExpiredHolds ==
  last.op = "sweep" =>
    \A sess \in last.deleted :
      sess.status = RESERVED /\ sess.reservationExpires < last.at

====
